---- MODULE Spec2Model ----
(***************************************************************************)
(* Model of the cmdline-parser crate: the bash-like tokenizer of            *)
(* src/unix.rs and the cmd-like tokenizer of src/windows.rs.  A Parser is   *)
(* an iterator over a borrowed command line; every pull (Iterator::next)    *)
(* scans characters until a token boundary or the end of the input and      *)
(* returns the token's byte range and its resolved text.                    *)
(*                                                                          *)
(* A string is a sequence of characters.  Byte offsets are those of         *)
(* str::char_indices: the offset of a character is the sum of the UTF-8     *)
(* widths of the characters before it.                                      *)
(***************************************************************************)
EXTENDS Integers, Sequences, FiniteSets, TLC

\* Longest command line explored, in characters.
MaxLen == 3

\* The characters command lines are built from: an ordinary letter, the
\* default separator, a tab, the three characters the engines treat
\* specially, and one character whose UTF-8 encoding is two bytes long.
Char == {"a", " ", "\t", "\\", "'", "\"", "é"}

\* The separator sets handed to set_separators.
SeparatorSets == {{}, {" "}, {"é"}, {"'", "\\", "\""}}

\* char::len_utf8
len_utf8(c) == IF c = "é" THEN 2 ELSE 1

\* str::char_indices: the byte offset of the k-th character (1-based) of s;
\* for k = Len(s) + 1 this is str::len.
RECURSIVE char_index(_, _)
char_index(s, k) == IF k <= 1 THEN 0 ELSE char_index(s, k - 1) + len_utf8(s[k - 1])

\* str::len (String::len): the length in bytes.
str_len(s) == char_index(s, Len(s) + 1)

\* All command lines of at most n characters.
RECURSIVE Strings(_)
Strings(n) == IF n = 0 THEN {<<>>}
              ELSE LET S == Strings(n - 1)
                   IN S \cup {Append(s, c) : s \in {t \in S : Len(t) = n - 1}, c \in Char}

\* Longest command line explored when only one-byte characters are drawn.
MaxLong == 4

\* The one-byte characters that matter to the engines' states.
PlainChar == {"a", " ", "\\", "'", "\""}

\* All command lines of at most n characters of PlainChar.
RECURSIVE PlainStrings(_)
PlainStrings(n) ==
    IF n = 0 THEN {<<>>}
    ELSE LET S == PlainStrings(n - 1)
         IN S \cup {Append(s, c) : s \in {t \in S : Len(t) = n - 1}, c \in PlainChar}

\* The locals of next when the for loop is entered (state is self.state).
Locals(state, start) ==
    [state |-> state, arg |-> <<>>, was_quoted |-> FALSE,
     yield_value |-> FALSE, start |-> start]

\* One entry of the scan log of a pull: the character read and the loop's
\* locals just before it was matched.
LogEntry(L, k, i, c) ==
    [k |-> k, i |-> i, c |-> c, state |-> L.state, arg |-> L.arg,
     was_quoted |-> L.was_quoted, start |-> L.start]

---------------------------------------------------------------------------
(* src/unix.rs *)

\* ParsingState of unix.rs
UnixParsingState == {"Normal", "Escaped", "SingleQuoted", "DoubleQuoted", "DoubleQuotedEscaped"}

\* Faulty variant of UnixSeparator: the closed-quote flag is not consulted.
UnixSeparator_IgnoresQuoted(L, i) ==
    IF Len(L.arg) > 0
    THEN [L EXCEPT !.yield_value = TRUE, !.state = "Normal"]
    ELSE [L EXCEPT !.start = i + 1, !.state = "Normal"]

\* The arm (Normal, ref c) if self.separators.contains(c) of unix.rs: the
\* separator ends the token, or is skipped and moves the start past it.
UnixSeparator(L, i) ==
    IF Len(L.arg) > 0 \/ L.was_quoted
    THEN [L EXCEPT !.yield_value = TRUE, !.state = "Normal"]
    ELSE [L EXCEPT !.start = i + 1, !.state = "Normal"]

\* Faulty variant of UnixLiteral: an escaped character keeps its backslash.
UnixLiteral_KeepsBackslash(L, c) ==
    IF L.state = "Escaped"
    THEN [L EXCEPT !.arg = Append(Append(@, "\\"), c), !.state = "Normal"]
    ELSE [L EXCEPT !.arg = Append(@, c), !.state = "Normal"]

\* The arm (Normal, _) | (Escaped, _) of unix.rs.
UnixLiteral(L, c) == [L EXCEPT !.arg = Append(@, c), !.state = "Normal"]

\* Faulty variant of UnixSingleQuoted: a backslash is taken as an escape and
\* not appended.
UnixSingleQuoted_DropsBackslash(L, c) ==
    IF c = "'" THEN [L EXCEPT !.was_quoted = TRUE, !.state = "Normal"]
    ELSE IF c = "\\" THEN L
    ELSE [L EXCEPT !.arg = Append(@, c), !.state = "SingleQuoted"]

\* The arms (SingleQuoted, '\'') and (SingleQuoted, _) of unix.rs.
UnixSingleQuoted(L, c) ==
    IF c = "'" THEN [L EXCEPT !.was_quoted = TRUE, !.state = "Normal"]
    ELSE [L EXCEPT !.arg = Append(@, c), !.state = "SingleQuoted"]

\* Faulty variant of UnixDoubleQuotedEscaped: the backslash is always dropped.
UnixDoubleQuotedEscaped_DropsBackslash(L, c) ==
    [L EXCEPT !.arg = Append(@, c), !.state = "DoubleQuoted"]

\* The arms (DoubleQuotedEscaped, '"'), (DoubleQuotedEscaped, '\\') and
\* (DoubleQuotedEscaped, _) of unix.rs.
UnixDoubleQuotedEscaped(L, c) ==
    IF c \in {"\"", "\\"}
    THEN [L EXCEPT !.arg = Append(@, c), !.state = "DoubleQuoted"]
    ELSE [L EXCEPT !.arg = Append(Append(@, "\\"), c), !.state = "DoubleQuoted"]

\* Faulty variant of UnixMatch: a separator ends the token in every state,
\* and the state is kept.
UnixMatch_SplitsInQuotes(L, i, c, separators) ==
    IF L.state = "Normal" /\ c = "\\" THEN [L EXCEPT !.state = "Escaped"]
    ELSE IF L.state = "Normal" /\ c = "'" THEN [L EXCEPT !.state = "SingleQuoted"]
    ELSE IF L.state = "Normal" /\ c = "\"" THEN [L EXCEPT !.state = "DoubleQuoted"]
    ELSE IF c \in separators THEN
        IF Len(L.arg) > 0 \/ L.was_quoted
        THEN [L EXCEPT !.yield_value = TRUE]
        ELSE [L EXCEPT !.start = i + 1]
    ELSE IF L.state \in {"Normal", "Escaped"} THEN UnixLiteral(L, c)
    ELSE IF L.state = "SingleQuoted" THEN UnixSingleQuoted(L, c)
    ELSE IF L.state = "DoubleQuoted" /\ c = "\"" THEN
        [L EXCEPT !.was_quoted = TRUE, !.state = "Normal"]
    ELSE IF L.state = "DoubleQuoted" /\ c = "\\" THEN
        [L EXCEPT !.state = "DoubleQuotedEscaped"]
    ELSE IF L.state = "DoubleQuoted" THEN
        [L EXCEPT !.arg = Append(@, c), !.state = "DoubleQuoted"]
    ELSE UnixDoubleQuotedEscaped(L, c)

\* The body of the for loop of unix::Parser::next: the match on
\* (self.state, c), arms tried in source order.
UnixMatch(L, i, c, separators) ==
    IF L.state = "Normal" /\ c = "\\" THEN [L EXCEPT !.state = "Escaped"]
    ELSE IF L.state = "Normal" /\ c = "'" THEN [L EXCEPT !.state = "SingleQuoted"]
    ELSE IF L.state = "Normal" /\ c = "\"" THEN [L EXCEPT !.state = "DoubleQuoted"]
    ELSE IF L.state = "Normal" /\ c \in separators THEN UnixSeparator(L, i)
    ELSE IF L.state \in {"Normal", "Escaped"} THEN UnixLiteral(L, c)
    ELSE IF L.state = "SingleQuoted" THEN UnixSingleQuoted(L, c)
    ELSE IF L.state = "DoubleQuoted" /\ c = "\"" THEN
        [L EXCEPT !.was_quoted = TRUE, !.state = "Normal"]
    ELSE IF L.state = "DoubleQuoted" /\ c = "\\" THEN
        [L EXCEPT !.state = "DoubleQuotedEscaped"]
    ELSE IF L.state = "DoubleQuoted" THEN
        [L EXCEPT !.arg = Append(@, c), !.state = "DoubleQuoted"]
    ELSE UnixDoubleQuotedEscaped(L, c)

\* Faulty variant of UnixYield: the range stops one byte early.
UnixYield_Short(L, i) == [some |-> TRUE, start |-> L.start, end |-> i - 1, arg |-> L.arg]

\* Faulty variant of UnixYield: the range includes the separator.
UnixYield_Inclusive(L, i) == [some |-> TRUE, start |-> L.start, end |-> i + 1, arg |-> L.arg]

\* Some((start..i, arg)) inside the loop of unix::Parser::next.
UnixYield(L, i) == [some |-> TRUE, start |-> L.start, end |-> i, arg |-> L.arg]

\* Faulty variant of UnixAtEnd: a pending escape is kept as a backslash.
UnixAtEnd_KeepsEscape(L, cmdline_len) ==
    IF L.state = "Escaped" \/ Len(L.arg) > 0 \/ L.was_quoted
    THEN [some |-> TRUE, start |-> L.start, end |-> cmdline_len,
          arg |-> IF L.state = "Escaped" THEN Append(L.arg, "\\") ELSE L.arg]
    ELSE [some |-> FALSE, start |-> 0, end |-> 0, arg |-> <<>>]

\* Faulty variant of UnixAtEnd: an empty quoted token is dropped.
UnixAtEnd_DropsEmpty(L, cmdline_len) ==
    IF Len(L.arg) > 0
    THEN [some |-> TRUE, start |-> L.start, end |-> cmdline_len, arg |-> L.arg]
    ELSE [some |-> FALSE, start |-> 0, end |-> 0, arg |-> <<>>]

\* After the loop of unix::Parser::next: the token that reaches the end of
\* the input, or None.
UnixAtEnd(L, cmdline_len) ==
    IF Len(L.arg) > 0 \/ L.was_quoted
    THEN [some |-> TRUE, start |-> L.start, end |-> cmdline_len, arg |-> L.arg]
    ELSE [some |-> FALSE, start |-> 0, end |-> 0, arg |-> <<>>]

\* Faulty variant of UnixFor: the separator that ends a token is left in the
\* iterator.
RECURSIVE UnixFor_LeavesSeparator(_, _, _, _, _, _)
UnixFor_LeavesSeparator(input, k, cmdline_len, separators, L, log) ==
    IF k > Len(input)
    THEN [item |-> UnixAtEnd(L, cmdline_len), cmdline |-> k, state |-> L.state,
          locals |-> L, log |-> log]
    ELSE LET i == char_index(input, k)
             c == input[k]
             L2 == UnixMatch(L, i, c, separators)
             log2 == Append(log, LogEntry(L, k, i, c))
         IN IF L2.yield_value
            THEN [item |-> UnixYield(L2, i), cmdline |-> k, state |-> L2.state,
                  locals |-> L2, log |-> log2]
            ELSE UnixFor_LeavesSeparator(input, k + 1, cmdline_len, separators, L2, log2)

\* The for loop of unix::Parser::next over the remaining characters, from
\* the k-th on.  Returns the item, the iterator's new position, the state
\* stored in self.state, the final locals and the scan log.
RECURSIVE UnixFor(_, _, _, _, _, _)
UnixFor(input, k, cmdline_len, separators, L, log) ==
    IF k > Len(input)
    THEN [item |-> UnixAtEnd(L, cmdline_len), cmdline |-> k, state |-> L.state,
          locals |-> L, log |-> log]
    ELSE LET i == char_index(input, k)
             c == input[k]
             L2 == UnixMatch(L, i, c, separators)
             log2 == Append(log, LogEntry(L, k, i, c))
         IN IF L2.yield_value
            THEN [item |-> UnixYield(L2, i), cmdline |-> k + 1, state |-> L2.state,
                  locals |-> L2, log |-> log2]
            ELSE UnixFor(input, k + 1, cmdline_len, separators, L2, log2)

\* Faulty variant of UnixNext: the last character is never peeked.
UnixNext_PeekShort(input, state, cmdline, cmdline_len, separators) ==
    IF cmdline < Len(input)
    THEN UnixFor(input, cmdline, cmdline_len, separators,
                 Locals(state, char_index(input, cmdline)), <<>>)
    ELSE [item |-> [some |-> FALSE, start |-> 0, end |-> 0, arg |-> <<>>],
          cmdline |-> cmdline, state |-> state,
          locals |-> Locals(state, 0), log |-> <<>>]

\* Faulty variant of UnixNext: start is not taken from the peeked character.
UnixNext_StartZero(input, state, cmdline, cmdline_len, separators) ==
    IF cmdline <= Len(input)
    THEN UnixFor(input, cmdline, cmdline_len, separators, Locals(state, 0), <<>>)
    ELSE [item |-> [some |-> FALSE, start |-> 0, end |-> 0, arg |-> <<>>],
          cmdline |-> cmdline, state |-> state,
          locals |-> Locals(state, 0), log |-> <<>>]

\* unix::Parser::next.  cmdline is the index of the character the iterator
\* will hand out next (Len(input) + 1 when it is exhausted).
UnixNext(input, state, cmdline, cmdline_len, separators) ==
    IF cmdline <= Len(input)          \* self.cmdline.peek() is Some
    THEN UnixFor(input, cmdline, cmdline_len, separators,
                 Locals(state, char_index(input, cmdline)), <<>>)
    ELSE [item |-> [some |-> FALSE, start |-> 0, end |-> 0, arg |-> <<>>],
          cmdline |-> cmdline, state |-> state,
          locals |-> Locals(state, 0), log |-> <<>>]

---------------------------------------------------------------------------
(* src/windows.rs *)

\* ParsingState of windows.rs
WindowsParsingState == {"Normal", "Quoted", "QuotedEscaped"}

\* Faulty variant of WindowsSeparator: a skipped separator does not move the
\* start.
WindowsSeparator_KeepsStart(L, i) ==
    IF Len(L.arg) > 0 \/ L.was_quoted
    THEN [L EXCEPT !.yield_value = TRUE, !.state = "Normal"]
    ELSE [L EXCEPT !.state = "Normal"]

\* The arm (Normal, ref c) if self.separators.contains(c) of windows.rs.
WindowsSeparator(L, i) ==
    IF Len(L.arg) > 0 \/ L.was_quoted
    THEN [L EXCEPT !.yield_value = TRUE, !.state = "Normal"]
    ELSE [L EXCEPT !.start = i + 1, !.state = "Normal"]

\* Faulty variant of WindowsLiteral: a backslash is taken as an escape and
\* not appended.
WindowsLiteral_EscapesBackslash(L, c) ==
    IF c = "\\" THEN L ELSE [L EXCEPT !.arg = Append(@, c), !.state = "Normal"]

\* The arm (Normal, _) of windows.rs.
WindowsLiteral(L, c) == [L EXCEPT !.arg = Append(@, c), !.state = "Normal"]

\* The body of the for loop of windows::Parser::next: the match on
\* (self.state, c), arms tried in source order.
WindowsMatch(L, i, c, separators) ==
    IF L.state = "Normal" /\ c = "\"" THEN [L EXCEPT !.state = "Quoted"]
    ELSE IF L.state = "Normal" /\ c \in separators THEN WindowsSeparator(L, i)
    ELSE IF L.state = "Normal" THEN WindowsLiteral(L, c)
    ELSE IF L.state = "Quoted" /\ c = "\"" THEN
        [L EXCEPT !.was_quoted = TRUE, !.state = "Normal"]
    ELSE IF L.state = "Quoted" /\ c = "\\" THEN
        [L EXCEPT !.state = "QuotedEscaped"]
    ELSE IF L.state = "Quoted" THEN
        [L EXCEPT !.arg = Append(@, c), !.state = "Quoted"]
    ELSE IF L.state = "QuotedEscaped" /\ c \in {"\"", "\\"} THEN
        [L EXCEPT !.arg = Append(@, c), !.state = "Quoted"]
    ELSE \* (QuotedEscaped, _)
        [L EXCEPT !.arg = Append(Append(@, "\\"), c), !.state = "Quoted"]

\* Some((start..i, arg)) inside the loop of windows::Parser::next.
WindowsYield(L, i) == [some |-> TRUE, start |-> L.start, end |-> i, arg |-> L.arg]

\* Faulty variant of WindowsPendingEscape: the pending backslash is dropped.
WindowsPendingEscape_Dropped(L) == L

\* if self.state == QuotedEscaped { arg.push('\\') } after the loop of
\* windows::Parser::next.
WindowsPendingEscape(L) ==
    IF L.state = "QuotedEscaped" THEN [L EXCEPT !.arg = Append(@, "\\")] ELSE L

\* After the loop of windows::Parser::next: the token that reaches the end
\* of the input, or None.
WindowsAtEnd(L, cmdline_len) ==
    IF Len(L.arg) > 0 \/ L.was_quoted
    THEN [some |-> TRUE, start |-> L.start, end |-> cmdline_len, arg |-> L.arg]
    ELSE [some |-> FALSE, start |-> 0, end |-> 0, arg |-> <<>>]

\* The for loop of windows::Parser::next and what follows it.
RECURSIVE WindowsFor(_, _, _, _, _, _)
WindowsFor(input, k, cmdline_len, separators, L, log) ==
    IF k > Len(input)
    THEN LET LE == WindowsPendingEscape(L)
         IN [item |-> WindowsAtEnd(LE, cmdline_len), cmdline |-> k, state |-> LE.state,
             locals |-> LE, log |-> log]
    ELSE LET i == char_index(input, k)
             c == input[k]
             L2 == WindowsMatch(L, i, c, separators)
             log2 == Append(log, LogEntry(L, k, i, c))
         IN IF L2.yield_value
            THEN [item |-> WindowsYield(L2, i), cmdline |-> k + 1, state |-> L2.state,
                  locals |-> L2, log |-> log2]
            ELSE WindowsFor(input, k + 1, cmdline_len, separators, L2, log2)

\* windows::Parser::next.
WindowsNext(input, state, cmdline, cmdline_len, separators) ==
    IF cmdline <= Len(input)          \* self.cmdline.peek() is Some
    THEN WindowsFor(input, cmdline, cmdline_len, separators,
                    Locals(state, char_index(input, cmdline)), <<>>)
    ELSE [item |-> [some |-> FALSE, start |-> 0, end |-> 0, arg |-> <<>>],
          cmdline |-> cmdline, state |-> state,
          locals |-> Locals(state, 0), log |-> <<>>]

---------------------------------------------------------------------------
(* A parser session *)

\* The two engines; lib.rs re-exports one of them as Parser.
Engines == {"unix", "windows"}

VARIABLES
    engine,       \* which module's Parser this is
    input,        \* the borrowed command line
    state,        \* Parser.state
    cmdline,      \* Parser.cmdline: index of the next character handed out
    cmdline_len,  \* Parser.cmdline_len
    separators,   \* Parser.separators
    ret,          \* what the last call of next returned, with its scan log
    out,          \* the tokens returned so far, in order
    set_at,       \* value of cmdline when separators was last assigned
    set_out       \* number of tokens returned when separators was last assigned

vars == <<engine, input, state, cmdline, cmdline_len, separators, ret, out, set_at, set_out>>

None == [some |-> FALSE, start |-> 0, end |-> 0, arg |-> <<>>]

\* Parser::new of either engine.
new(e, s) ==
    /\ engine = e
    /\ input = s
    /\ state = "Normal"
    /\ cmdline = 1
    /\ cmdline_len = str_len(s)
    /\ separators = {" "}

Init ==
    /\ \E e \in Engines, s \in Strings(MaxLen) : new(e, s)
    /\ ret = [called |-> FALSE, item |-> None, locals |-> Locals("Normal", 0),
              log |-> <<>>, from |-> 1, state0 |-> "Normal", separators |-> {}]
    /\ out = <<>>
    /\ set_at = 1
    /\ set_out = 0

\* The engine's Iterator::next on the given parser fields.
Pull(e, s, st, pos, len, seps) ==
    IF e = "unix" THEN UnixNext(s, st, pos, len, seps) ELSE WindowsNext(s, st, pos, len, seps)

\* Iterator::next: one pull.
next ==
    LET r == Pull(engine, input, state, cmdline, cmdline_len, separators)
    IN /\ state' = r.state
       /\ cmdline' = r.cmdline
       /\ ret' = [called |-> TRUE, item |-> r.item, locals |-> r.locals, log |-> r.log,
                  from |-> cmdline, state0 |-> state, separators |-> separators]
       /\ out' = IF r.item.some THEN Append(out, r.item) ELSE out
       /\ UNCHANGED <<engine, input, cmdline_len, separators, set_at, set_out>>

\* Faulty variant of Replace: the old members are kept.
Replace_Extends(old, new_set) == old \cup new_set

\* self.separators.clear(); self.separators.extend(separators)
Replace(old, new_set) == new_set

\* Parser::set_separators
set_separators ==
    \E S \in SeparatorSets :
        /\ separators' = Replace(separators, S)
        /\ set_at' = cmdline
        /\ set_out' = Len(out)
        /\ UNCHANGED <<engine, input, state, cmdline, cmdline_len, ret, out>>

Next == next \/ set_separators

Spec == Init /\ [][Next]_vars

\* The same parser on the longer command lines of one-byte characters.
InitLong ==
    /\ \E e \in Engines, s \in PlainStrings(MaxLong) : new(e, s)
    /\ ret = [called |-> FALSE, item |-> None, locals |-> Locals("Normal", 0),
              log |-> <<>>, from |-> 1, state0 |-> "Normal", separators |-> {}]
    /\ out = <<>>
    /\ set_at = 1
    /\ set_out = 0

SpecLong == InitLong /\ [][Next]_vars

---------------------------------------------------------------------------
(* Properties *)

\* The characters an engine matches in the Normal state before it consults
\* the separator set (the arms above the separator arm).
Special(e) == IF e = "unix" THEN {"\\", "'", "\""} ELSE {"\""}

\* The last entry of the scan log of the last pull.
LastRead == ret.log[Len(ret.log)]

\* A log entry at which the scanner is in the Normal state and reads a member
\* of the separator set with text accumulated or a quote closed.
AtBoundary(e) ==
    /\ e.state = "Normal"
    /\ e.c \in ret.separators
    /\ (e.arg # <<>> \/ e.was_quoted)

\* A log entry at which a quoted region is closed.
ClosesQuote(e) ==
    \/ e.state = "SingleQuoted" /\ e.c = "'"
    \/ e.state \in {"DoubleQuoted", "Quoted"} /\ e.c = "\""

\* A log entry at which a quoted region is opened.
OpensQuote(e) ==
    /\ e.state = "Normal"
    /\ e.c \in (IF engine = "unix" THEN {"'", "\""} ELSE {"\""})

\* A log entry at which a character acts as a separator.
ActsAsSeparator(e) ==
    /\ e.state = "Normal"
    /\ e.c \in ret.separators
    /\ e.c \notin Special(engine)

\* C1: every yielded range satisfies start <= end <= input byte length, and
\* every token starts at or after the end of the token yielded before it,
\* in both engines and with set_separators calls interleaved.
C1_RangesOrdered ==
    \A n \in 1..Len(out) :
        /\ out[n].start <= out[n].end
        /\ out[n].end <= cmdline_len
        /\ n > 1 => out[n].start >= out[n - 1].end

\* Two tokens were yielded, the second after a set_separators call, and a
\* two-byte separator was skipped before it.
C1_Witness ==
    /\ Len(out) = 2
    /\ set_out = 1
    /\ out[2].start > out[1].end + 1

\* C2 as stated: for every separator set, a member of the set read in the
\* Normal state with text accumulated or a quote closed ends the token at
\* that character, and the pull returns it.
C2_Original ==
    ret.called =>
        \A n \in 1..Len(ret.log) :
            AtBoundary(ret.log[n]) =>
                /\ n = Len(ret.log)
                /\ ret.item.some
                /\ ret.item.end = ret.log[n].i
                /\ ret.item.arg = ret.log[n].arg

\* C2, amended: the same for every member of the separator set that the
\* engine does not match first as an escape or quote character (backslash,
\* single quote and double quote in unix.rs, double quote in windows.rs).
C2_SeparatorEndsToken ==
    ret.called =>
        \A n \in 1..Len(ret.log) :
            (AtBoundary(ret.log[n]) /\ ret.log[n].c \notin Special(engine)) =>
                /\ n = Len(ret.log)
                /\ ret.item.some
                /\ ret.item.end = ret.log[n].i
                /\ ret.item.arg = ret.log[n].arg

\* A separator ended a token whose only content is a closed quote, under a
\* separator set other than the default.
C2_Witness ==
    /\ ret.called
    /\ ret.log # <<>>
    /\ AtBoundary(LastRead)
    /\ LastRead.c \notin Special(engine)
    /\ LastRead.arg = <<>>
    /\ ret.separators = {"é"}

\* The index of the first character of s, from the k-th on, that is not in
\* seps (Len(s) + 1 when there is none).
RECURSIVE FirstNonSeparator(_, _, _)
FirstNonSeparator(s, k, seps) ==
    IF k > Len(s) \/ s[k] \notin seps THEN k ELSE FirstNonSeparator(s, k + 1, seps)

\* C3: the start of every yielded token is the byte offset of the first
\* character after the previous boundary that is not a member of the active
\* separator set, whatever the encoded width of the separators (stated for
\* separator sets that hold no escape or quote character).
C3_StartAtFirstNonSeparator ==
    (ret.item.some /\ ret.separators \cap Special(engine) = {}) =>
        ret.item.start = char_index(input, FirstNonSeparator(input, ret.from, ret.separators))

\* C4: the end of a yielded token is the byte offset of the separator that
\* terminated it, which is below the input byte length, or the input byte
\* length when the pull reached the end of the input without one.
C4_EndOffset ==
    ret.item.some =>
        IF ret.locals.yield_value
        THEN /\ LastRead.state = "Normal"
             /\ LastRead.c \in ret.separators
             /\ ret.item.end = char_index(input, LastRead.k)
             /\ ret.item.end < cmdline_len
        ELSE /\ ret.from + Len(ret.log) = Len(input) + 1
             /\ ret.item.end = cmdline_len

\* A token was terminated by a separator that is the last character of the
\* input, after a two-byte character.
C4_Witness ==
    /\ ret.item.some
    /\ ret.locals.yield_value
    /\ LastRead.k = Len(input)
    /\ ret.item.end > Len(input) - 1

\* C5: a token with empty text is yielded exactly when a quote pair was
\* opened and closed in the pull and every other character read opened a
\* quote or acted as a separator; a pull that reads only separators yields
\* no token.
C5_EmptyTokens ==
    ret.called =>
        /\ (ret.item.some /\ ret.item.arg = <<>>) =>
               \E n \in 1..Len(ret.log) : ClosesQuote(ret.log[n])
        /\ ( /\ \E n \in 1..Len(ret.log) : ClosesQuote(ret.log[n])
             /\ \A n \in 1..Len(ret.log) :
                    \/ ClosesQuote(ret.log[n])
                    \/ OpensQuote(ret.log[n])
                    \/ ActsAsSeparator(ret.log[n]) )
               => (ret.item.some /\ ret.item.arg = <<>>)
        /\ (\A n \in 1..Len(ret.log) : ActsAsSeparator(ret.log[n])) => ~ret.item.some

\* An empty token was yielded at the end of the input after a skipped
\* leading separator.
C5_Witness ==
    /\ ret.item.some
    /\ ret.item.arg = <<>>
    /\ ~ret.locals.yield_value
    /\ ret.item.start > 0

\* Iterator::collect from the given parser fields: pulls until None.
RECURSIVE Collect(_, _, _, _, _, _)
Collect(e, s, st, pos, len, seps) ==
    LET r == Pull(e, s, st, pos, len, seps)
    IN IF r.item.some
       THEN <<r.item>> \o Collect(e, s, r.state, r.cmdline, len, seps)
       ELSE <<>>

\* Parser::new(s), set_separators(seps), collect(): all tokens of s.
parse(e, s, seps) == Collect(e, s, "Normal", 1, str_len(s), seps)

\* The resolved texts of a sequence of tokens.
Texts(toks) == [n \in DOMAIN toks |-> toks[n].arg]

\* s without its last character.
Front(s) == SubSeq(s, 1, Len(s) - 1)

\* The input is consumed and the whole scan ran under the current separator
\* set (it was last assigned before the first pull).
ScannedWhole == cmdline > Len(input) /\ set_at = 1 /\ set_out = 0

\* C6: an input that ends inside an unterminated quote yields the same
\* resolved texts as that input with the matching closing quote appended.
C6_UnterminatedQuoteAsClosed ==
    (ScannedWhole /\ state \in {"SingleQuoted", "DoubleQuoted", "Quoted"}) =>
        Texts(out) = Texts(parse(engine,
                                 Append(input, IF state = "SingleQuoted" THEN "'" ELSE "\""),
                                 separators))

\* C7: in unix.rs an input that ends in the Escaped state yields the same
\* resolved texts as the input without its trailing backslash, and a last
\* token whose raw span contains the backslash ends at the input byte length.
C7_TrailingBackslashDropped ==
    (engine = "unix" /\ ScannedWhole /\ state = "Escaped") =>
        /\ input[Len(input)] = "\\"
        /\ Texts(out) = Texts(parse("unix", Front(input), separators))
        /\ \A n \in 1..Len(out) :
               (out[n].start <= char_index(input, Len(input))
                    /\ char_index(input, Len(input)) < out[n].end)
                   => (n = Len(out) /\ out[n].end = cmdline_len)

\* A scan under a non-default separator set ended in the Escaped state with
\* a last token that spans the trailing backslash.
C7_Witness ==
    /\ engine = "unix" /\ ScannedWhole /\ state = "Escaped"
    /\ separators = {"é"}
    /\ out # <<>>
    /\ out[Len(out)].end = cmdline_len

\* C8: in windows.rs an input that ends in the QuotedEscaped state yields the
\* tokens of the input without the trailing backslash with exactly one
\* backslash appended to the text pending at the end of the input; that
\* token ends at the input byte length and later pulls return None.
C8_PendingBackslashKept ==
    (engine = "windows" /\ ScannedWhole /\ state = "QuotedEscaped") =>
        LET front == parse("windows", Front(input), separators)
            base == Texts(front)
            pending == front # <<>> /\ front[Len(front)].end = str_len(Front(input))
        IN /\ input[Len(input)] = "\\"
           /\ out # <<>>
           /\ Texts(out) = IF pending
                           THEN [base EXCEPT ![Len(base)] = Append(@, "\\")]
                           ELSE Append(base, <<"\\">>)
           /\ out[Len(out)].end = cmdline_len
           /\ (ret.called /\ ret.from > Len(input)) => ~ret.item.some

\* A scan ended in the QuotedEscaped state with text before the backslash,
\* and a further pull was made after the input was consumed.
C8_Witness ==
    /\ engine = "windows" /\ ScannedWhole /\ state = "QuotedEscaped"
    /\ ret.called /\ ret.from > Len(input)
    /\ Len(out[Len(out)].arg) = 2

\* The tokens a parser created on the not yet consumed characters, with the
\* current separator set, yields, with ranges shifted to offsets of input.
FreshOnSuffix ==
    LET suffix == SubSeq(input, set_at, Len(input))
        off == char_index(input, set_at)
    IN [n \in DOMAIN parse(engine, suffix, separators) |->
            [parse(engine, suffix, separators)[n] EXCEPT !.start = @ + off, !.end = @ + off]]

\* The tokens yielded since separators was last assigned.
SinceSet == SubSeq(out, set_out + 1, Len(out))

\* C9: after set_separators the tokens yielded are those a fresh parser with
\* the new separator set yields on the not yet consumed suffix, with ranges
\* shifted by the suffix's byte offset; the call changes neither the scan
\* position, the parsing state nor the tokens already returned.
C9_SetSeparators ==
    /\ [](/\ Len(SinceSet) <= Len(FreshOnSuffix)
          /\ SinceSet = SubSeq(FreshOnSuffix, 1, Len(SinceSet))
          /\ cmdline > Len(input) => SinceSet = FreshOnSuffix)
    /\ [][separators' # separators =>
              /\ separators' \in SeparatorSets
              /\ UNCHANGED <<state, cmdline, cmdline_len, out>>]_vars

\* After a first token, set_separators replaced the default set and the next
\* token holds a space, which no longer separates.
C9_Witness ==
    /\ set_out = 1
    /\ Len(out) = 2
    /\ separators = {"é"}
    /\ " " \in {out[2].arg[n] : n \in 1..Len(out[2].arg)}

\* The last pull returned None.
ReturnedNone == ret.called /\ ~ret.item.some

\* C10: a pull returns None only when every character has been consumed and
\* the pull accumulated neither text nor a closed quote; once a pull has
\* returned None every later pull returns None, whatever set_separators
\* calls happen in between.
C10_NoneIsFinal ==
    /\ [](ReturnedNone =>
              /\ ret.from + Len(ret.log) = Len(input) + 1
              /\ cmdline > Len(input)
              /\ ret.locals.arg = <<>>
              /\ ~ret.locals.was_quoted)
    /\ [][ReturnedNone => ReturnedNone']_vars

\* None was returned again by a pull made after set_separators was called
\* on the exhausted parser, which had yielded a token.
C10_Witness ==
    /\ ReturnedNone
    /\ ret.from > Len(input)
    /\ ret.separators = {"é"}
    /\ set_at > Len(input)
    /\ out # <<>>

\* C11: every pull returns a token or None; a pull made while characters
\* remain consumes at least one, the characters a pull reads are exactly
\* those from the iterator's position up to its new position (each is read
\* by one pull), and the tokens returned never outnumber the characters
\* consumed, so at most Len(input) + 1 pulls reach exhaustion.
C11_SinglePass ==
    /\ [](/\ ret.item.some \in BOOLEAN
          /\ cmdline <= Len(input) + 1
          /\ Len(out) <= cmdline - 1)
    /\ [][(ret' # ret \/ cmdline' # cmdline) =>
              /\ ret'.called
              /\ ret'.from = cmdline
              /\ cmdline' = cmdline + Len(ret'.log)
              /\ cmdline <= Len(input) => cmdline' > cmdline
              /\ \A n \in 1..Len(ret'.log) :
                     /\ ret'.log[n].k = cmdline + n - 1
                     /\ ret'.log[n].c = input[cmdline + n - 1]]_vars

\* After one token, a pull read the trailing backslash that was left and
\* returned None.
C11_Witness ==
    /\ ReturnedNone
    /\ Len(input) = 3
    /\ Len(ret.log) = 1
    /\ state = "Escaped"
    /\ Len(out) = 1

\* char::is_whitespace, on the characters of Char.
Whitespace == {" ", "\t"}

\* The maximal runs of s, from the k-th character on, of characters outside
\* seps; cur is the run being read.
RECURSIVE Split(_, _, _, _)
Split(s, k, seps, cur) ==
    IF k > Len(s) THEN (IF cur = <<>> THEN <<>> ELSE <<cur>>)
    ELSE IF s[k] \in seps
         THEN (IF cur = <<>> THEN <<>> ELSE <<cur>>) \o Split(s, k + 1, seps, <<>>)
         ELSE Split(s, k + 1, seps, Append(cur, s[k]))

\* s without the characters of seps.
RECURSIVE Without(_, _)
Without(s, seps) ==
    IF s = <<>> THEN <<>>
    ELSE IF Head(s) \in seps THEN Without(Tail(s), seps)
    ELSE <<Head(s)>> \o Without(Tail(s), seps)

\* The concatenation of a sequence of strings.
RECURSIVE Concat(_)
Concat(ss) == IF ss = <<>> THEN <<>> ELSE Head(ss) \o Concat(Tail(ss))

\* str::is_char_boundary
is_char_boundary(s, b) == \E k \in 1..(Len(s) + 1) : char_index(s, k) = b

\* &s[a..b] for char boundaries a <= b: the characters at offsets a..b-1.
Slice(s, a, b) ==
    LET ks == {k \in 1..Len(s) : a <= char_index(s, k) /\ char_index(s, k) < b}
    IN IF ks = {} THEN <<>>
       ELSE SubSeq(s, CHOOSE k \in ks : \A j \in ks : k <= j,
                      CHOOSE k \in ks : \A j \in ks : k >= j)

\* The input holds no quote and no backslash and was scanned whole with the
\* default separator set.
PlainDefaultScan ==
    /\ ScannedWhole
    /\ separators = {" "}
    /\ \A k \in 1..Len(input) : input[k] \notin {"\\", "'", "\""}

\* Every token's text is the slice of the input its range names.
TextsAreSlices ==
    \A n \in 1..Len(out) :
        /\ is_char_boundary(input, out[n].start)
        /\ is_char_boundary(input, out[n].end)
        /\ out[n].arg = Slice(input, out[n].start, out[n].end)

\* C12 as stated: for an input without quotes and backslashes, under the
\* default separator set, the tokens are the whitespace-split substrings of
\* the input, each text is input[start..end), and the slices concatenated
\* are the input's non-separator content.
C12_Original ==
    PlainDefaultScan =>
        /\ Texts(out) = Split(input, 1, Whitespace, <<>>)
        /\ TextsAreSlices
        /\ Concat(Texts(out)) = Without(input, {" "})

\* C12, amended: the tokens are the substrings split at the space character
\* (the only default separator; a tab or other whitespace is an ordinary
\* character), in order.
C12_SpaceSplit ==
    PlainDefaultScan =>
        /\ Texts(out) = Split(input, 1, {" "}, <<>>)
        /\ TextsAreSlices
        /\ Concat(Texts(out)) = Without(input, {" "})

\* Two tokens split at a space, the second holding a two-byte character.
C12_Witness ==
    /\ PlainDefaultScan
    /\ Len(out) = 2
    /\ out[2].arg = <<"é">>

\* parse_single of lib.rs, with Parser the given engine.
parse_single(e, argument) ==
    LET r == Pull(e, argument, "Normal", 1, str_len(argument), Replace({" "}, {}))
    IN IF r.item.some THEN r.item.arg ELSE <<>>

\* C13: for every token yielded, parse_single of the raw substring
\* input[start..end) is the token's text.
C13_RoundTrip ==
    \A n \in 1..Len(out) :
        /\ is_char_boundary(input, out[n].start)
        /\ is_char_boundary(input, out[n].end)
        /\ parse_single(engine, Slice(input, out[n].start, out[n].end)) = out[n].arg

\* The inputs in which nothing but an unterminated escape or an unclosed
\* empty quote follows the start.
NoContent(e) ==
    IF e = "unix"
    THEN {<<>>, <<"\\">>, <<"'">>, <<"\"">>, <<"\"", "\\">>}
    ELSE {<<>>, <<"\"">>}

\* C14: a parser with the empty separator set yields at most one token, its
\* range is 0..input byte length and parse_single returns its text; it
\* yields none only for an input without content, and parse_single then
\* returns the empty string.
C14_ParseSingle ==
    LET toks == parse(engine, input, {})
    IN /\ Len(toks) <= 1
       /\ toks # <<>> =>
              /\ toks[1].start = 0
              /\ toks[1].end = str_len(input)
              /\ parse_single(engine, input) = toks[1].arg
       /\ toks = <<>> =>
              /\ parse_single(engine, input) = <<>>
              /\ input \in NoContent(engine)
       /\ input \in NoContent(engine) => toks = <<>>
       /\ (ScannedWhole /\ separators = {}) => out = toks

\* A three-character input with a space in the middle was scanned with the
\* empty separator set and came out as one token that holds the space.
C14_Witness ==
    /\ ScannedWhole
    /\ separators = {}
    /\ Len(out) = 1
    /\ Len(input) = 3
    /\ input[2] = " "
    /\ out[1].arg = input

\* The loop's locals after the n-th character of the last pull was matched.
After(n) == IF n < Len(ret.log) THEN ret.log[n + 1] ELSE ret.locals

\* The n-th character of the last pull ended the token.
Yielded(n) == n = Len(ret.log) /\ ret.locals.yield_value

\* C15: inside double quotes a backslash followed by a double quote or a
\* backslash appends only that character and does not close the quote; a
\* backslash followed by any other character appends the backslash and the
\* character; either way the engine is back in the quoted state.
C15_EscapeInDoubleQuotes ==
    ret.called =>
        \A n \in 1..(Len(ret.log) - 1) :
            (ret.log[n].state \in {"DoubleQuoted", "Quoted"} /\ ret.log[n].c = "\\") =>
                LET c == ret.log[n + 1].c
                IN /\ ret.log[n + 1].state \in {"DoubleQuotedEscaped", "QuotedEscaped"}
                   /\ ret.log[n + 1].arg = ret.log[n].arg
                   /\ After(n + 1).state = ret.log[n].state
                   /\ After(n + 1).was_quoted = ret.log[n].was_quoted
                   /\ ~Yielded(n + 1)
                   /\ After(n + 1).arg =
                          ret.log[n].arg \o (IF c \in {"\"", "\\"} THEN <<c>> ELSE <<"\\", c>>)

\* In unix.rs a backslash inside double quotes was followed by a single
\* quote, and both were appended.
C15_Witness ==
    /\ engine = "unix"
    /\ ret.called
    /\ Len(ret.log) = 3
    /\ ret.log[2].state = "DoubleQuoted" /\ ret.log[2].c = "\\"
    /\ ret.log[3].c = "'"
    /\ ret.item.some
    /\ ret.item.arg = <<"\\", "'">>

\* C16: in unix.rs, outside quotes, a backslash is not appended and the
\* character after it is appended literally, whatever it is: an escaped
\* separator does not end the token and an escaped quote opens no quoted
\* region.
C16_UnixEscape ==
    (engine = "unix" /\ ret.called) =>
        \A n \in 1..Len(ret.log) :
            (ret.log[n].state = "Normal" /\ ret.log[n].c = "\\") =>
                /\ After(n).state = "Escaped"
                /\ After(n).arg = ret.log[n].arg
                /\ ~Yielded(n)
                /\ n < Len(ret.log) =>
                       /\ After(n + 1).state = "Normal"
                       /\ After(n + 1).arg = Append(ret.log[n].arg, ret.log[n + 1].c)
                       /\ After(n + 1).was_quoted = ret.log[n].was_quoted
                       /\ ~Yielded(n + 1)

\* In unix.rs an escaped separator was appended to the token and a later
\* character joined it.
C16_Witness ==
    /\ engine = "unix"
    /\ ret.called
    /\ Len(ret.log) = 3
    /\ ret.log[1].state = "Normal" /\ ret.log[1].c = "\\"
    /\ ret.log[2].c \in ret.separators
    /\ ret.item.some
    /\ ret.item.arg = <<ret.log[2].c, ret.log[3].c>>

\* C17: in windows.rs a backslash outside quotes and a single quote in any
\* state are ordinary characters: outside quotes they are appended and the
\* state stays Normal (or, when a member of the separator set, they act as
\* the separator), so a separator right after a backslash ends the token;
\* inside quotes a single quote is appended like any other character.
C17_WindowsOrdinary ==
    (engine = "windows" /\ ret.called) =>
        \A n \in 1..Len(ret.log) :
            LET e == ret.log[n]
            IN /\ (e.state = "Normal" /\ e.c \in {"\\", "'"}) =>
                      /\ After(n).state = "Normal"
                      /\ After(n).was_quoted = e.was_quoted
                      /\ IF e.c \in ret.separators
                         THEN /\ After(n).arg = e.arg
                              /\ Yielded(n) <=> (e.arg # <<>> \/ e.was_quoted)
                         ELSE /\ After(n).arg = Append(e.arg, e.c)
                              /\ ~Yielded(n)
               /\ ( /\ e.state = "Normal" /\ e.c = "\\" /\ e.c \notin ret.separators
                    /\ n < Len(ret.log)
                    /\ ret.log[n + 1].c \in ret.separators \ {"\""} ) =>
                      /\ Yielded(n + 1)
                      /\ ret.item.some
                      /\ ret.item.end = ret.log[n + 1].i
                      /\ ret.item.arg = Append(e.arg, "\\")
               /\ (e.state = "Quoted" /\ e.c = "'") =>
                      /\ After(n).state = "Quoted"
                      /\ After(n).arg = Append(e.arg, "'")
                      /\ After(n).was_quoted = e.was_quoted
               /\ (e.state = "QuotedEscaped" /\ e.c = "'") =>
                      /\ After(n).state = "Quoted"
                      /\ After(n).arg = e.arg \o <<"\\", "'">>
                      /\ After(n).was_quoted = e.was_quoted

\* In windows.rs a token that ends in a backslash was ended by the space
\* right after it.
C17_Witness ==
    /\ engine = "windows"
    /\ ret.called
    /\ Len(ret.log) = 3
    /\ ret.log[2].state = "Normal" /\ ret.log[2].c = "\\"
    /\ ret.log[3].c = " "
    /\ Yielded(3)
    /\ ret.item.arg = <<ret.log[1].c, "\\">>

\* C18: in unix.rs, in the SingleQuoted state, every character but the
\* single quote is appended unchanged and the state stays SingleQuoted; the
\* first single quote closes the region, also right after a backslash.
C18_SingleQuoted ==
    (engine = "unix" /\ ret.called) =>
        \A n \in 1..Len(ret.log) :
            LET e == ret.log[n]
            IN e.state = "SingleQuoted" =>
                   /\ ~Yielded(n)
                   /\ IF e.c = "'"
                      THEN /\ After(n).state = "Normal"
                           /\ After(n).arg = e.arg
                           /\ After(n).was_quoted
                      ELSE /\ After(n).state = "SingleQuoted"
                           /\ After(n).arg = Append(e.arg, e.c)
                           /\ After(n).was_quoted = e.was_quoted

\* In unix.rs a single quote right after a backslash closed the single
\* quoted region, and the backslash is in the text.
C18_Witness ==
    /\ engine = "unix"
    /\ ret.called
    /\ Len(ret.log) = 3
    /\ ret.log[2].state = "SingleQuoted" /\ ret.log[2].c = "\\"
    /\ ret.log[3].c = "'"
    /\ state = "Normal"
    /\ ret.item.arg = <<"\\">>

\* C19: while unconsumed characters remain the stored state is Normal; the
\* state is other than Normal between pulls only with the input consumed.
C19_NormalBetweenPulls == cmdline <= Len(input) => state = "Normal"

\* A pull that went through a state other than Normal returned a token
\* with characters left.
C19_Witness ==
    /\ ret.called
    /\ ret.item.some
    /\ \E n \in 1..Len(ret.log) : ret.log[n].state # "Normal"
    /\ cmdline <= Len(input)

\* C20: the byte length of every token's text is at most end - start, and
\* start < end.
C20_TextFitsSpan ==
    \A n \in 1..Len(out) :
        /\ str_len(out[n].arg) <= out[n].end - out[n].start
        /\ out[n].start < out[n].end

\* A token ended by a separator whose text fills its span, after a skipped
\* separator.
C20_Witness ==
    /\ ret.item.some
    /\ ret.locals.yield_value
    /\ ret.item.start > 0
    /\ str_len(ret.item.arg) = ret.item.end - ret.item.start

====
